---- MODULE Spec2Model ----
(***************************************************************************)
(* A model of pg_datanymizer's PostgreSQL dumper (PgDumper): the three     *)
(* stages pre_data, data and post_data, the pg_dump subprocess call, the   *)
(* per-table dump inside the data stage, and the pure helper table_args;   *)
(* of the command line's Options::database_url; and of the engine's        *)
(* LocalizedFaker::localized_fake.                                         *)
(*                                                                         *)
(* The dump writer's byte stream is the sequence `dump` of chunks, one per *)
(* write_all call.  The requests sent on the connection are recorded in    *)
(* `db_ops`, each with the length of the dump at the time it was issued.   *)
(* A string that database_url takes apart or puts together is a sequence   *)
(* of tokens.                                                              *)
(***************************************************************************)
EXTENDS Integers, Sequences, FiniteSets, TLC

\* ------------------------------------------------------------------ bounds

\* Rows one table may deliver over both copy-out passes.
MaxRows == 2
\* Dependency weights are drawn from 0..MaxWeight.
MaxWeight == 1
\* Longest table list of a filter handed to table_args.
MaxListLen == 2
\* Calls of localized_fake on one rule.
MaxCalls == 2

\* ------------------------------------------------------- the environment

\* Tables a database may hold (full names).
TableNames == {"t1", "t2", "t3"}
\* Values a last-value query may return.
SeqValues == {10, 20}
Weights == 0..MaxWeight

\* PgTable.sequences of each table.
sequences(table) ==
    CASE table = "t1" -> <<"t1_id_seq">>
      [] table = "t2" -> <<>>
      [] OTHER -> <<"t3_id_seq", "t3_no_seq">>

\* Sequences of length at most n over S.
SeqsUpTo(S, n) == UNION {[1..k -> S] : k \in 0..n}

Range(s) == {s[i] : i \in DOMAIN s}

\* Sequences without repetition over S.
DistinctSeqs(S) ==
    {s \in SeqsUpTo(S, Cardinality(S)) : Cardinality(Range(s)) = Len(s)}

\* What ordered_tables may return from a database holding the tables S:
\* some of them, each once, in any order, each with a weight.
TableLists(S) ==
    UNION {{[i \in 1..Len(names) |-> [table |-> names[i], weight |-> w[i]]] :
               w \in [1..Len(names) -> Weights]} :
           names \in DistinctSeqs(S)}

\* Option<TableList>: None, Only(list) or Except(list).
NoList == [kind |-> "None", tables |-> <<>>]
TableListsOver(names, n) ==
    {NoList} \cup
    {[kind |-> k, tables |-> l] : k \in {"Only", "Except"}, l \in SeqsUpTo(names, n)}

\* Option<Filter>: None, or Some(Filter {schema, data}).
NoFilter == [some |-> FALSE, schema |-> NoList, data |-> NoList]
Filters(names, n) ==
    {NoFilter} \cup
    {[some |-> TRUE, schema |-> s, data |-> d] :
        s \in TableListsOver(names, n), d \in TableListsOver(names, n)}

\* The runs of the whole-run specification: a filter, the tables of the
\* database it is run against, and the dump's destination.
Run(f, S, t) == [filter |-> f, catalog |-> S, target |-> t]
Runs ==
    {Run(NoFilter, {"t1", "t2"}, "file"),
     Run(NoFilter, {"t2"}, "stdout"),
     Run([some |-> TRUE, schema |-> [kind |-> "Only", tables |-> <<"t1", "t2">>],
          data |-> [kind |-> "Except", tables |-> <<"t2">>]], {"t1", "t2"}, "stdout"),
     Run([some |-> TRUE, schema |-> [kind |-> "Except", tables |-> <<"t2">>],
          data |-> [kind |-> "Only", tables |-> <<"t2">>]], {"t1", "t2"}, "file"),
     Run([some |-> TRUE, schema |-> NoList,
          data |-> [kind |-> "Only", tables |-> <<"t3">>]], TableNames, "file"),
     Run([some |-> TRUE, schema |-> NoList,
          data |-> [kind |-> "Only", tables |-> <<"t3">>]], TableNames, "stdout")}

\* ------------------------------------------------------------ pure helpers

\* TableList::tables
tables_of(list) == list.tables

RECURSIVE flat_map(_, _)
flat_map(flag, names) ==
    IF names = <<>> THEN <<>>
    ELSE <<flag, Head(names)>> \o flat_map(flag, Tail(names))

\* table_args with the two flags taken for each other.
table_args_flags_swapped(f) ==
    IF f.some /\ f.schema.kind # "None"
    THEN LET flag == IF f.schema.kind = "Only" THEN "-T" ELSE "-t"
         IN flat_map(flag, tables_of(f.schema))
    ELSE <<>>

\* table_args that falls back on the data list when there is no schema list.
table_args_data_fallback(f) ==
    IF ~f.some THEN <<>>
    ELSE LET list == IF f.schema.kind # "None" THEN f.schema ELSE f.data
             flag == IF list.kind = "Only" THEN "-t" ELSE "-T"
         IN IF list.kind = "None" THEN <<>> ELSE flat_map(flag, tables_of(list))

\* PgDumper::table_args
table_args(f) ==
    IF f.some /\ f.schema.kind # "None"
    THEN LET flag == IF f.schema.kind = "Only" THEN "-t" ELSE "-T"
         IN flat_map(flag, tables_of(f.schema))
    ELSE <<>>

\* Filter::filter_table on the data list, by full name.
filter_table(name, f) ==
    IF ~f.some \/ f.data.kind = "None" THEN TRUE
    ELSE IF f.data.kind = "Only" THEN name \in Range(f.data.tables)
    ELSE name \notin Range(f.data.tables)

\* The comparator a.1.cmp(&b.1): ascending weights.
LessAscending(a, b) == a.weight < b.weight

\* The comparator of data's sort_by, |a, b| b.1.cmp(&a.1): TRUE when it
\* answers Less, that is when a must come before b.
Less(a, b) == b.weight < a.weight

\* An insertion that puts x before the elements it ties with.
RECURSIVE InsertBeforeTies(_, _)
InsertBeforeTies(s, x) ==
    IF s = <<>> THEN <<x>>
    ELSE IF ~Less(Head(s), x) THEN <<x>> \o s
    ELSE <<Head(s)>> \o InsertBeforeTies(Tail(s), x)

\* s with x put behind every element that is not ordered after it, as a
\* stable sort does.
RECURSIVE Insert(_, _)
Insert(s, x) ==
    IF s = <<>> THEN <<x>>
    ELSE IF Less(x, Head(s)) THEN <<x>> \o s
    ELSE <<Head(s)>> \o Insert(Tail(s), x)

RECURSIVE sort_by(_)
sort_by(s) ==
    IF s = <<>> THEN <<>>
    ELSE Insert(sort_by(SubSeq(s, 1, Len(s) - 1)), s[Len(s)])

\* ------------------------------------------------- Options::database_url

\* A string is a sequence of tokens: words, and the characters that
\* delimit the parts of a URL, each a token of its own.
Delims == {":", "/", "@"}

\* Words that have the form of a scheme: a letter, then letters and digits.
SchemeWords == {"postgres", "http", "mydb", "test", "hostname", "localhost", "pass", "var"}

\* Schemes the URL standard calls special.
SpecialSchemes == {"http"}

\* The decimal digits of a port number.
PortDigits == (5433 :> "5433")

\* Option<T>
None == <<>>
Some(x) == <<x>>

\* The first place of s with a token of S (Len(s) + 1 without one) and the
\* last (0 without one).
Find(s, S) ==
    IF \E i \in DOMAIN s : s[i] \in S
    THEN CHOOSE i \in DOMAIN s : s[i] \in S /\ \A j \in 1..(i - 1) : s[j] \notin S
    ELSE Len(s) + 1
RFind(s, S) ==
    IF \E i \in DOMAIN s : s[i] \in S
    THEN CHOOSE i \in DOMAIN s : s[i] \in S /\ \A j \in (i + 1)..Len(s) : s[j] \notin S
    ELSE 0

\* Percent-encoding of a user name or a password.
percent_encode(s) ==
    [i \in DOMAIN s |-> CASE s[i] = ":" -> "%3A"
                          [] s[i] = "/" -> "%2F"
                          [] s[i] = "@" -> "%40"
                          [] OTHER -> s[i]]

\* Url: `slashes` says that "//" follows the scheme; an empty user name,
\* password or host and the port None are absent from the URL.
MakeUrl(scheme, slashes, username, password, host, port, path, cannot_be_a_base) ==
    [scheme |-> scheme, slashes |-> slashes, username |-> username,
     password |-> password, host |-> host, port |-> port, path |-> path,
     cannot_be_a_base |-> cannot_be_a_base]
NoUrl == MakeUrl("", FALSE, <<>>, <<>>, <<>>, None, <<>>, FALSE)

\* Result<Url>
Ok(url) == [ok |-> TRUE, err |-> "", url |-> url]
Err(e) == [ok |-> FALSE, err |-> e, url |-> NoUrl]

\* Url::has_host
has_host(url) == url.host # <<>>

\* What follows "scheme://": credentials, host and port up to the path.
parse_after_double_slash(scheme, input) ==
    LET path_start == Find(input, {"/"})
        authority == SubSeq(input, 1, path_start - 1)
        rest == SubSeq(input, path_start, Len(input))
        at == RFind(authority, {"@"})
        userinfo == SubSeq(authority, 1, at - 1)
        colon == Find(userinfo, {":"})
        username == percent_encode(SubSeq(userinfo, 1, colon - 1))
        password == percent_encode(SubSeq(userinfo, colon + 1, Len(userinfo)))
        hostport == SubSeq(authority, at + 1, Len(authority))
        port_colon == Find(hostport, {":"})
        host == SubSeq(hostport, 1, port_colon - 1)
        digits == SubSeq(hostport, port_colon + 1, Len(hostport))
        path == IF rest = <<>> /\ scheme \in SpecialSchemes THEN <<"/">> ELSE rest
    IN  IF digits # <<>> /\ ~(\E p \in DOMAIN PortDigits : digits = <<PortDigits[p]>>)
        THEN Err("invalid port number")
        ELSE IF host = <<>> /\ (scheme \in SpecialSchemes \/ at > 0 \/ digits # <<>>)
        THEN Err("empty host")
        ELSE LET port == IF digits = <<>> THEN None
                         ELSE Some(CHOOSE p \in DOMAIN PortDigits : digits = <<PortDigits[p]>>)
             IN Ok(MakeUrl(scheme, TRUE, username, password, host, port, path, FALSE))

\* Url::parse
Url_parse(input) ==
    IF Len(input) < 2 \/ input[1] \notin SchemeWords \/ input[2] # ":"
    THEN Err("relative URL without a base")
    ELSE LET scheme == input[1]
             rest == SubSeq(input, 3, Len(input))
         IN IF Len(rest) >= 2 /\ rest[1] = "/" /\ rest[2] = "/"
            THEN parse_after_double_slash(scheme, SubSeq(rest, 3, Len(rest)))
            ELSE Ok(MakeUrl(scheme, FALSE, <<>>, <<>>, <<>>, None, rest,
                            rest = <<>> \/ rest[1] # "/"))

\* Url::to_string (Url::as_str)
to_string(url) ==
    LET userinfo == IF url.username = <<>> /\ url.password = <<>> THEN <<>>
                    ELSE url.username
                         \o (IF url.password = <<>> THEN <<>> ELSE <<":">> \o url.password)
                         \o <<"@">>
        port == IF url.port = None THEN <<>> ELSE <<":", PortDigits[url.port[1]]>>
    IN  <<url.scheme, ":">>
        \o (IF url.slashes THEN <<"/", "/">> \o userinfo \o url.host \o port ELSE <<>>)
        \o url.path

\* A set_port that leaves the URL as it is.
set_port_kept(url, port) ==
    IF ~has_host(url) THEN Err("()") ELSE Ok(url)

\* Url::set_port
set_port(url, port) ==
    IF ~has_host(url) THEN Err("()") ELSE Ok([url EXCEPT !.port = port])

\* Url::set_username
set_username(url, username) ==
    IF url.cannot_be_a_base \/ ~has_host(url) THEN Err("()")
    ELSE Ok([url EXCEPT !.username = percent_encode(username)])

\* Url::set_password: None and Some("") take the password away.
set_password(url, password) ==
    IF url.cannot_be_a_base \/ ~has_host(url) THEN Err("()")
    ELSE Ok([url EXCEPT !.password = IF password = None THEN <<>>
                                     ELSE percent_encode(password[1])])

\* Url::set_path: a path that does not begin with "/" is given one.
set_path(url, path) ==
    [url EXCEPT !.path = IF path # <<>> /\ path[1] # "/" THEN <<"/">> \o path ELSE path]

\* Option::unwrap_or_default and Option::unwrap_or_else
unwrap_or(opt, default) == IF opt = None THEN default ELSE opt[1]

\* format!("postgres://{}", self.host)
format_host(host) == <<"postgres", ":", "/", "/">> \o host

\* build_url in which the dbname option comes before the positional name.
build_url_option_first(o, override_db_name) ==
    LET db_name == IF o.db_name # <<>> THEN o.db_name ELSE unwrap_or(override_db_name, <<>>)
        parsed == Url_parse(format_host(o.host))
    IN  IF db_name = <<>> THEN Err("No one database passed")
        ELSE IF ~parsed.ok THEN Err(parsed.err)
        ELSE Ok(set_path(parsed.url, db_name))

\* Options::build_url
build_url(o, override_db_name) ==
    LET db_name == unwrap_or(override_db_name, o.db_name)
        parsed == Url_parse(format_host(o.host))
        with_port == set_port(parsed.url, o.port)
        with_username == set_username(with_port.url, unwrap_or(o.username, <<>>))
        with_password == set_password(with_username.url, o.password)
    IN  IF db_name = <<>> THEN Err("No one database passed")
        ELSE IF ~parsed.ok THEN Err(parsed.err)
        ELSE IF ~with_port.ok THEN Err("Cannot set port")
        ELSE IF ~with_username.ok THEN Err("Cannot set username")
        ELSE IF ~with_password.ok THEN Err("Cannot set password")
        ELSE Ok(set_path(with_password.url, db_name))

\* Some(self.database.to_string()).filter(|x| !x.is_empty())
non_empty(s) == IF s = <<>> THEN None ELSE Some(s)

\* database_url that builds the URL from the options when the positional
\* name is a URL of another scheme.
database_url_fallback(o) ==
    LET parsed == Url_parse(o.database)
    IN  IF parsed.ok /\ parsed.url.scheme = "postgres" THEN Ok(parsed.url)
        ELSE build_url(o, non_empty(o.database))

\* Options::database_url
database_url(o) ==
    LET parsed == Url_parse(o.database)
    IN  IF parsed.ok
        THEN IF parsed.url.scheme = "postgres" THEN Ok(parsed.url)
             ELSE Err("Scheme url error")
        ELSE build_url(o, non_empty(o.database))

\* The structopt defaults, with an empty positional name.
DefaultOptions ==
    [database |-> <<>>, db_name |-> <<"postgres">>, host |-> <<"localhost">>,
     port |-> None, username |-> None, password |-> None]

\* The command lines database_url is called with.
Databases ==
    {<<>>,
     <<"test">>,
     <<"postgres", ":", "/", "/", "hostname", "/", "test">>,
     <<"postgres", ":", "/", "/", "test_user", "@", "hostname", "/", "test">>,
     <<"postgres", ":", "/", "/", "test_user", ":", "pass", "@", "hostname", ":", "5433",
       "/", "test">>,
     <<"postgres", ":", "test">>,
     <<"http", ":", "/", "/", "hostname", "/", "test">>,
     <<"mydb", ":", "test">>}
DbNames == {<<>>, <<"postgres">>, <<"test">>}
Hosts == {<<"localhost">>, <<"hostname">>, <<"hostname", ":", "5433">>, <<"/", "var">>}
OptionsSet ==
    [database : Databases, db_name : DbNames, host : Hosts,
     port : {None, Some(5433)},
     username : {None, Some(<<"test_user">>)},
     password : {None, Some(<<"pass">>)}]

\* ------------------------------------------- LocalizedFaker::localized_fake

\* enum LocaleConfig
LocaleConfig == {"EN", "RU", "ZH_TW"}

\* LocaleConfig::default
LocaleConfig_default == "EN"

\* The locale types handed to fake: EN {}, RU {} and ZH_TW {}.
LocaleType(l) ==
    CASE l = "EN" -> "fake::locales::EN"
      [] l = "RU" -> "locale::RU"
      [] OTHER -> "fake::locales::ZH_TW"

\* The rules localized_fake is called on: a generator with its own locale
\* or without one.
RuleKinds == {"first_name", "city", "phone"}
Rules == [kind : RuleKinds, locale : {None} \cup {Some(l) : l \in LocaleConfig}]
DefaultRule == [kind |-> "first_name", locale |-> None]

\* LocalizedFaker::fake: the value the rule's generator makes for a locale
\* type.
fake(r, L) == [kind |-> r.kind, L |-> L]

\* localized_fake that hands EN {} to fake whatever the locale.
localized_fake_en(r) ==
    [L |-> LocaleType("EN"), value |-> fake(r, LocaleType("EN"))]

\* LocalizedFaker::localized_fake: the locale type fake is called with, and
\* the value it returns.
localized_fake(r) ==
    LET l == unwrap_or(r.locale, LocaleConfig_default)
    IN [L |-> LocaleType(l), value |-> fake(r, LocaleType(l))]

\* ------------------------------------------------------------------- state

VARIABLES
    filter,         \* engine.settings.filter
    catalog,        \* the tables of the source database
    target,         \* the dump destination: "stdout" (no file given) or "file"
    pg_dump_args,   \* passthrough arguments for pg_dump
    pc,             \* where the run is
    ret,            \* what the stage handler called last returned
    attempts,       \* the stages called so far, in call order
    results,        \* per stage: "none", "Ok", "Err" or "exit"
    exit_status,    \* -1 while the process runs, then its exit status
    dump,           \* the chunks given to dump_writer.write_all, in order
    stdout,         \* the lines println! wrote
    stderr,         \* what was written to standard error
    cmds,           \* the pg_dump invocations, in order
    db_ops,         \* the requests made on the connection, in order
    tr,             \* the transaction: "none", "open", "rolled_back", "committed"
    discovered,     \* what ordered_tables returned
    tables,         \* data's local `tables`, after sort_by
    visited,        \* the tables the for loop of data has taken, in order
    dumped,         \* the tables for which dump_table returned Ok, in order
    ind,            \* the for loop's position in tables (from 1)
    count,          \* dump_table's local `count`
    seq_i,          \* dump_table's position in table.sequences (from 1)
    progress_bar,   \* length, prefix and position of the progress bar
    table_args_ret, \* what a direct call of table_args returned
    options,        \* the command line's Options
    database_url_ret, \* what a direct call of database_url returned
    rule,           \* the rule localized_fake is called on
    fake_calls,     \* the calls of fake: the rule and the locale type, in order
    fake_rets       \* the calls of localized_fake: the rule and the value, in order

cfgVars == <<filter, catalog, target, pg_dump_args>>
stageVars == <<pc, ret, attempts, results, exit_status>>
outVars == <<dump, stdout, stderr, cmds>>
dbVars == <<db_ops, tr>>
dataVars == <<discovered, tables, visited, dumped, ind, count, seq_i, progress_bar>>
localeVars == <<rule, fake_calls, fake_rets>>
callVars == <<table_args_ret, options, database_url_ret, localeVars>>
vars == <<cfgVars, callVars, stageVars, outVars, dbVars, dataVars>>

Stages == <<"pre_data", "data", "post_data">>

pg_dump_location == "pg_dump"
db_url == "postgres://localhost/postgres"

\* One write_all call's bytes.
Chunk(kind, text, table, seq, n) ==
    [kind |-> kind, text |-> text, table |-> table, seq |-> seq, n |-> n]

PgDumpOut(section) == Chunk("pg_dump", section, "", "", 0)
\* write_log's "\n---\n--- {message}\n---\n"
LogChunk(message, table) == Chunk("log", message, table, "", 0)
Newline(table) == Chunk("nl", "", table, "", 0)
QueryFrom(table) == Chunk("query_from", "", table, "", 0)
RowChunk(pass, table, n) == Chunk("row", pass, table, "", n)
Terminator(table) == Chunk("term", "", table, "", 0)
Setval(table, seq, v) == Chunk("setval", "", table, seq, v)

\* A request on the connection; `at` is the dump's length when it was made.
DbOp(op, table, seq, n, ok) ==
    [op |-> op, table |-> table, seq |-> seq, n |-> n, ok |-> ok, at |-> Len(dump)]

\* DumpWriter::can_log_to_stdout
can_log_to_stdout == target # "stdout"

\* PgDumper::new: the bar is hidden when the dump goes to standard output.
NewProgressBar(t) ==
    [hidden |-> (t = "stdout"), length |-> 0, prefix |-> "", pos |-> 0, incs |-> 0]

\* A debug that prints whatever the destination of the dump is.
println_always(out, message, table) == Append(out, [text |-> message, table |-> table])

\* Dumper::debug, as the standard output it leaves.
println(out, message, table) ==
    IF can_log_to_stdout
    THEN Append(out, [text |-> message, table |-> table])
    ELSE out

debug(message, table) == stdout' = println(stdout, message, table)

\* The state before a run from `start`, but for the command line.
InitRun(runs, argss, start) ==
    /\ \E r \in runs : filter = r.filter /\ catalog = r.catalog /\ target = r.target
    /\ pg_dump_args \in argss
    /\ pc = start
    /\ ret = "none"
    /\ attempts = <<>>
    /\ results = [s \in Range(Stages) |-> "none"]
    /\ exit_status = -1
    /\ dump = <<>>
    /\ stdout = <<>>
    /\ stderr = <<>>
    /\ cmds = <<>>
    /\ db_ops = <<>>
    /\ tr = "none"
    /\ discovered = <<>>
    /\ tables = <<>>
    /\ visited = <<>>
    /\ dumped = <<>>
    /\ ind = 0
    /\ count = 0
    /\ seq_i = 0
    /\ progress_bar = NewProgressBar(target)
    /\ table_args_ret = <<>>
    /\ database_url_ret = Err("")
    /\ fake_calls = <<>>
    /\ fake_rets = <<>>

InitWith(runs, argss, start) ==
    /\ InitRun(runs, argss, start)
    /\ options = DefaultOptions
    /\ rule = DefaultRule

Init == InitWith(Runs, {<<"--no-owner">>}, "pre_data")

\* ------------------------------------------------------ the stage machine

\* Dumper::dump: pre_data, data and post_data in turn, each result passed
\* up with `?`.
dump_next(stage, r) ==
    IF r # "Ok" THEN "failed"
    ELSE CASE stage = "pre_data" -> "data"
           [] stage = "data" -> "post_data"
           [] OTHER -> "done"

\* The process's exit status once the run is over.
exit_of(p) ==
    CASE p = "done" -> 0
      [] p \in {"failed", "exited"} -> 1
      [] OTHER -> -1

\* A stage handler is entered.
Call(stage) == attempts' = Append(attempts, stage)

\* A stage handler has returned ret' (or has ended the process).
Return(stage) ==
    /\ results' = [results EXCEPT ![stage] = ret']
    /\ pc' = IF ret' = "exit" THEN "exited" ELSE dump_next(stage, ret')
    /\ exit_status' = exit_of(pc')

\* ---------------------------------------------------------- run_pg_dump

PgDumpOutcomes == {"spawn_err", "nonzero", "nonzero_stderr_err", "write_err", "ok"}

\* An argument list with the connection URL before the table arguments.
pg_dump_argv_url_early(section) ==
    pg_dump_args \o <<"--section", section>> \o <<db_url>> \o table_args(filter)

\* The argument list of the Command.
pg_dump_argv(section) ==
    pg_dump_args \o <<"--section", section>> \o table_args(filter) \o <<db_url>>

\* run_pg_dump without the check of the exit status: the subprocess's
\* standard output is written whatever the status.
run_pg_dump_unchecked(section, outcome) ==
    /\ cmds' = Append(cmds,
                 [program |-> pg_dump_location, args |-> pg_dump_argv(section),
                  section |-> section,
                  status |-> CASE outcome = "spawn_err" -> "not_run"
                               [] outcome \in {"nonzero", "nonzero_stderr_err"} -> "nonzero"
                               [] OTHER -> "zero"])
    /\ stderr' = stderr
    /\ dump' = IF outcome \in {"ok", "nonzero", "nonzero_stderr_err"}
               THEN Append(dump, PgDumpOut(section)) ELSE dump
    /\ ret' = IF outcome \in {"ok", "nonzero", "nonzero_stderr_err"} THEN "Ok" ELSE "Err"

\* PgDumper::run_pg_dump, with the subprocess's and the writes' outcome.
run_pg_dump(section, outcome) ==
    /\ cmds' = Append(cmds,
                 [program |-> pg_dump_location, args |-> pg_dump_argv(section),
                  section |-> section,
                  status |-> CASE outcome = "spawn_err" -> "not_run"
                               [] outcome \in {"nonzero", "nonzero_stderr_err"} -> "nonzero"
                               [] OTHER -> "zero"])
    /\ stderr' = CASE outcome = "nonzero" ->
                        stderr \o <<"pg_dump error", "pg_dump stderr " \o section>>
                   [] outcome = "nonzero_stderr_err" -> Append(stderr, "pg_dump error")
                   [] OTHER -> stderr
    /\ dump' = IF outcome = "ok" THEN Append(dump, PgDumpOut(section)) ELSE dump
    /\ ret' = CASE outcome = "ok" -> "Ok"
                [] outcome = "nonzero" -> "exit"
                [] OTHER -> "Err"

\* Dumper::pre_data
pre_data(outcome) ==
    /\ debug("Prepare data scheme...", "")
    /\ run_pg_dump("pre-data", outcome)

\* post_data asking pg_dump for the pre-data section once more.
post_data_pre_section(outcome) ==
    /\ debug("Finishing with indexes...", "")
    /\ run_pg_dump("pre-data", outcome)

\* Dumper::post_data
post_data(outcome) ==
    /\ debug("Finishing with indexes...", "")
    /\ run_pg_dump("post-data", outcome)

PreData ==
    /\ pc = "pre_data"
    /\ Call("pre_data")
    /\ \E outcome \in PgDumpOutcomes : pre_data(outcome)
    /\ Return("pre_data")
    /\ UNCHANGED <<cfgVars, callVars, dbVars, dataVars>>

PostData ==
    /\ pc = "post_data"
    /\ Call("post_data")
    /\ \E outcome \in PgDumpOutcomes : post_data(outcome)
    /\ Return("post_data")
    /\ UNCHANGED <<cfgVars, callVars, dbVars, dataVars>>

\* ------------------------------------------------------------ Dumper::data

\* Table::count_of_query_to: the row count the progress bar expects.
count_of_query_to(table) == MaxRows

\* The first table of the list, whatever the loop's position.
CurFirst == tables[1].table

\* The table the for loop of data is at.
Cur == tables[ind].table

\* The transaction goes out of scope without a commit: it is rolled back.
DropTransaction == tr' = IF tr = "open" THEN "rolled_back" ELSE tr

\* An error that is noted while the for loop goes on.
DataErrContinue ==
    /\ ret' = "Err"
    /\ results' = [results EXCEPT !["data"] = "Err"]
    /\ pc' = "loop"
    /\ UNCHANGED <<tr, exit_status>>

\* `?` inside data and dump_table: the error goes up to dump at once.
DataErr ==
    /\ ret' = "Err"
    /\ DropTransaction
    /\ Return("data")

\* data up to the sort: the start marker, ordered_tables, sort_by.
DataStart ==
    /\ pc = "data"
    /\ Call("data")
    /\ \/ \* write_log fails
          /\ ret' = "Err"
          /\ Return("data")
          /\ UNCHANGED <<cfgVars, callVars, outVars, dbVars, dataVars>>
       \/ \E list \in TableLists(catalog) :
            /\ dump' = Append(dump, LogChunk("Start dumping data", ""))
            /\ debug("Fetch tables metadata...", "")
            /\ db_ops' = Append(db_ops, [DbOp("ordered_tables", "", "", 0, TRUE)
                                            EXCEPT !.at = Len(dump) + 1])
            /\ discovered' = list
            /\ tables' = sort_by(list)
            /\ pc' = "transaction"
            /\ ret' = "none"
            /\ UNCHANGED <<cfgVars, callVars, results, exit_status, stderr, cmds, tr,
                           visited, dumped, ind, count, seq_i, progress_bar>>

\* connection.transaction()?
DataTransaction ==
    /\ pc = "transaction"
    /\ \/ /\ db_ops' = Append(db_ops, DbOp("transaction", "", "", 0, FALSE))
          /\ DataErr
          /\ UNCHANGED <<cfgVars, callVars, attempts, outVars, dataVars>>
       \/ /\ db_ops' = Append(db_ops, DbOp("transaction", "", "", 0, TRUE))
          /\ tr' = "open"
          /\ ind' = 1
          /\ pc' = "loop"
          /\ UNCHANGED <<cfgVars, callVars, ret, attempts, results, exit_status, outVars,
                         discovered, tables, visited, dumped, count, seq_i, progress_bar>>

\* A for loop that hands every table to dump_table.
DataNextUnfiltered ==
    /\ pc = "loop"
    /\ ind <= Len(tables)
    /\ visited' = Append(visited, Cur)
    /\ debug("Prepare to dump table", Cur)
    /\ pc' = "dump_table"
    /\ UNCHANGED <<cfgVars, callVars, ret, attempts, results, exit_status, dump, stderr, cmds,
                   dbVars, discovered, tables, dumped, ind, count, seq_i, progress_bar>>

\* One turn of the for loop: the table is handed to dump_table or skipped.
DataNext ==
    /\ pc = "loop"
    /\ ind <= Len(tables)
    /\ visited' = Append(visited, Cur)
    /\ IF filter_table(Cur, filter)
       THEN /\ debug("Prepare to dump table", Cur)
            /\ pc' = "dump_table"
            /\ ind' = ind
       ELSE /\ stdout' = println(println(stdout, "Prepare to dump table", Cur),
                                 "--- SKIP ---", Cur)
            /\ pc' = "loop"
            /\ ind' = ind + 1
    /\ UNCHANGED <<cfgVars, callVars, ret, attempts, results, exit_status, dump, stderr, cmds,
                   dbVars, discovered, tables, dumped, count, seq_i, progress_bar>>

\* After the loop: the end marker, Ok(()), and `tr` goes out of scope.
DataEnd ==
    /\ pc = "loop"
    /\ ind > Len(tables)
    /\ \/ /\ dump' = Append(dump, LogChunk("End dumping data", ""))
          /\ ret' = "Ok"
       \/ /\ dump' = dump
          /\ ret' = "Err"
    /\ DropTransaction
    /\ Return("data")
    /\ UNCHANGED <<cfgVars, callVars, attempts, stdout, stderr, cmds, db_ops, dataVars>>

\* ------------------------------------------------- PgDumper::dump_table

\* The first k of the writes ws succeed; with k < Len(ws) the next one fails.
WriteAll(ws, k) == dump' = dump \o SubSeq(ws, 1, k)

\* PgDumper::init_progress_bar
init_progress_bar(tsize, prefix) ==
    [progress_bar EXCEPT !.length = tsize, !.prefix = prefix, !.incs = 0]

\* A tick that moves the bar by two.
inc_by_two == [progress_bar EXCEPT !.pos = @ + 2, !.incs = @ + 2]

\* ProgressBar::inc(1)
inc == [progress_bar EXCEPT !.pos = @ + 1, !.incs = @ + 1]

\* The copy preamble first and the table's marker behind it.
HeadWritesMarkerLast(t) ==
    <<Newline(t), QueryFrom(t), Newline(t), LogChunk("Dump table", t)>>

\* The writes before the rows: the table's marker and its copy preamble.
HeadWrites(t) == <<LogChunk("Dump table", t), Newline(t), QueryFrom(t), Newline(t)>>

DumpTableHead ==
    /\ pc = "dump_table"
    /\ \E k \in 0..Len(HeadWrites(Cur)) :
         /\ WriteAll(HeadWrites(Cur), k)
         /\ IF k < Len(HeadWrites(Cur))
            THEN /\ DataErr
                 /\ UNCHANGED <<db_ops, count, progress_bar>>
            ELSE /\ progress_bar' = init_progress_bar(count_of_query_to(Cur), Cur)
                 /\ count' = 0
                 /\ pc' = "transformed_query"
                 /\ UNCHANGED <<ret, results, exit_status, dbVars>>
    /\ UNCHANGED <<cfgVars, callVars, attempts, stdout, stderr, cmds,
                   discovered, tables, visited, dumped, ind, seq_i>>

\* Where dump_table goes after a pass.
AfterPass(pass) == IF pass = "transformed" THEN "untransformed_query" ELSE "terminator"

\* transformed_query_to / untransformed_query_to and copy_out: the table
\* has no such query, or copy_out fails, or a reader is open.
Query(pass) ==
    /\ pc = pass \o "_query"
    /\ \/ /\ pc' = AfterPass(pass)
          /\ UNCHANGED <<ret, results, exit_status, dbVars>>
       \/ /\ db_ops' = Append(db_ops, DbOp("copy_out", Cur, pass, count, FALSE))
          /\ DataErr
       \/ /\ db_ops' = Append(db_ops, DbOp("copy_out", Cur, pass, count, TRUE))
          /\ pc' = pass \o "_lines"
          /\ UNCHANGED <<ret, results, exit_status, tr>>
    /\ UNCHANGED <<cfgVars, callVars, attempts, outVars, dataVars>>

RowWrites(pass, t, n) == <<RowChunk(pass, t, n), Newline(t)>>

\* One turn of `for line in reader.lines()`: end of data, a line that
\* fails to read or to transform, or a line of which k writes succeed.
Line(pass) ==
    /\ pc = pass \o "_lines"
    /\ \/ /\ pc' = AfterPass(pass)
          /\ UNCHANGED <<ret, results, exit_status, tr, dump, count, progress_bar>>
       \/ /\ progress_bar' = inc
          /\ DataErr
          /\ UNCHANGED <<dump, count>>
       \/ /\ pass = "transformed"
          /\ count < MaxRows
          /\ progress_bar' = inc
          /\ DataErr
          /\ UNCHANGED <<dump, count>>
       \/ /\ count < MaxRows
          /\ progress_bar' = inc
          /\ \E k \in 0..2 :
               /\ WriteAll(RowWrites(pass, Cur, count + 1), k)
               /\ IF k < 2
                  THEN /\ DataErr
                       /\ count' = count
                  ELSE /\ count' = count + 1
                       /\ UNCHANGED <<pc, ret, results, exit_status, tr>>
    /\ UNCHANGED <<cfgVars, callVars, attempts, stdout, stderr, cmds, db_ops,
                   discovered, tables, visited, dumped, ind, seq_i>>

TransformedQuery == Query("transformed")
TransformedLine == Line("transformed")
UntransformedQuery == Query("untransformed")
UntransformedLine == Line("untransformed")

\* A terminator that is written only when the table had rows.
WriteTerminatorIfRows ==
    /\ pc = "terminator"
    /\ \/ /\ dump' = IF count > 0 THEN Append(dump, Terminator(Cur)) ELSE dump
          /\ seq_i' = 1
          /\ pc' = "sequences"
          /\ UNCHANGED <<ret, results, exit_status, tr>>
       \/ /\ DataErr
          /\ UNCHANGED <<dump, seq_i>>
    /\ UNCHANGED <<cfgVars, callVars, attempts, stdout, stderr, cmds, db_ops,
                   discovered, tables, visited, dumped, ind, count, progress_bar>>

\* The copy terminator.
WriteTerminator ==
    /\ pc = "terminator"
    /\ \/ /\ dump' = Append(dump, Terminator(Cur))
          /\ seq_i' = 1
          /\ pc' = "sequences"
          /\ UNCHANGED <<ret, results, exit_status, tr>>
       \/ /\ DataErr
          /\ UNCHANGED <<dump, seq_i>>
    /\ UNCHANGED <<cfgVars, callVars, attempts, stdout, stderr, cmds, db_ops,
                   discovered, tables, visited, dumped, ind, count, progress_bar>>

\* A for loop over table.sequences that stops one sequence early.
SequencesDoneEarly == seq_i >= Len(sequences(Cur))

\* The for loop over table.sequences has run out.
SequencesDone == seq_i > Len(sequences(Cur))

SetvalWrites(t, seq, v) == <<Newline(t), Setval(t, seq, v), Newline(t)>>

\* One turn of `for seq in &table.sequences`: the last-value query, then
\* the setval statement between two newlines.
Sequence ==
    /\ pc = "sequences"
    /\ ~SequencesDone
    /\ LET seq == sequences(Cur)[seq_i] IN
       \/ /\ db_ops' = Append(db_ops, DbOp("query_one", Cur, seq, 0, FALSE))
          /\ DataErr
          /\ UNCHANGED <<dump, seq_i>>
       \/ \E last_value \in SeqValues, k \in 0..3 :
            /\ db_ops' = Append(db_ops, DbOp("query_one", Cur, seq, last_value, TRUE))
            /\ WriteAll(SetvalWrites(Cur, seq, last_value), k)
            /\ IF k < 3
               THEN /\ DataErr
                    /\ seq_i' = seq_i
               ELSE /\ seq_i' = seq_i + 1
                    /\ UNCHANGED <<pc, ret, results, exit_status, tr>>
    /\ UNCHANGED <<cfgVars, callVars, attempts, stdout, stderr, cmds,
                   discovered, tables, visited, dumped, ind, count, progress_bar>>

\* The end of dump_table: finish and reset the bar, the timing line, Ok(()).
DumpTableFinish ==
    /\ pc = "sequences"
    /\ SequencesDone
    /\ progress_bar' = [progress_bar EXCEPT !.pos = 0]
    /\ debug("Finished", Cur)
    /\ dumped' = Append(dumped, Cur)
    /\ ind' = ind + 1
    /\ pc' = "loop"
    /\ UNCHANGED <<cfgVars, callVars, ret, attempts, results, exit_status, dump, stderr, cmds,
                   dbVars, discovered, tables, visited, count, seq_i>>

\* ------------------------------------------------------- specifications

Next ==
    \/ PreData
    \/ DataStart
    \/ DataTransaction
    \/ DataNext
    \/ DumpTableHead
    \/ TransformedQuery
    \/ TransformedLine
    \/ UntransformedQuery
    \/ UntransformedLine
    \/ WriteTerminator
    \/ Sequence
    \/ DumpTableFinish
    \/ DataEnd
    \/ PostData

Spec == Init /\ [][Next]_vars

\* table_args called on its own, for every filter over the table names
\* with lists of MaxListLen names at most.
InitArgs ==
    InitWith({Run(f, {}, "file") : f \in Filters(TableNames, MaxListLen)}, {<<>>},
             "table_args")

TableArgsCall ==
    /\ pc = "table_args"
    /\ table_args_ret' = table_args(filter)
    /\ pc' = "returned"
    /\ UNCHANGED <<cfgVars, ret, attempts, results, exit_status, outVars, dbVars, dataVars,
                   options, database_url_ret, localeVars>>

NextArgs == TableArgsCall

SpecArgs == InitArgs /\ [][NextArgs]_vars

\* database_url called on its own, for every command line of OptionsSet.
InitUrl ==
    /\ InitRun({Run(NoFilter, {}, "file")}, {<<>>}, "database_url")
    /\ options \in OptionsSet
    /\ rule = DefaultRule

DatabaseUrlCall ==
    /\ pc = "database_url"
    /\ database_url_ret' = database_url(options)
    /\ pc' = "returned"
    /\ UNCHANGED <<cfgVars, ret, attempts, results, exit_status, outVars, dbVars, dataVars,
                   table_args_ret, options, localeVars>>

NextUrl == DatabaseUrlCall

SpecUrl == InitUrl /\ [][NextUrl]_vars

\* localized_fake called MaxCalls times at most on a rule whose locale may
\* be set anew between the calls.
InitLocale ==
    /\ InitRun({Run(NoFilter, {}, "file")}, {<<>>}, "localized_fake")
    /\ options = DefaultOptions
    /\ rule \in Rules

LocalizedFakeCall ==
    /\ pc = "localized_fake"
    /\ Len(fake_rets) < MaxCalls
    /\ fake_calls' = Append(fake_calls, [rule |-> rule, L |-> localized_fake(rule).L])
    /\ fake_rets' = Append(fake_rets, [rule |-> rule, value |-> localized_fake(rule).value])
    /\ UNCHANGED <<cfgVars, stageVars, outVars, dbVars, dataVars,
                   table_args_ret, options, database_url_ret, rule>>

\* Localized::set_locale
SetLocale ==
    /\ pc = "localized_fake"
    /\ \E l \in {None} \cup {Some(x) : x \in LocaleConfig} :
         rule' = [rule EXCEPT !.locale = l]
    /\ UNCHANGED <<cfgVars, stageVars, outVars, dbVars, dataVars,
                   table_args_ret, options, database_url_ret, fake_calls, fake_rets>>

NextLocale == LocalizedFakeCall \/ SetLocale

SpecLocale == InitLocale /\ [][NextLocale]_vars

\* ------------------------------------------------------------- the claims

IsPrefix(s, t) == Len(s) <= Len(t) /\ \A i \in DOMAIN s : s[i] = t[i]

Last(s) == s[Len(s)]

\* The stage a chunk of the dump belongs to: pg_dump's pre-data section,
\* the data stage's own writes, pg_dump's post-data section.
StageRank(c) ==
    IF c.kind # "pg_dump" THEN 2
    ELSE IF c.text = "pre-data" THEN 1 ELSE 3

\* The handler that asks pg_dump for a section.
StageOfSection(section) == IF section = "pre-data" THEN "pre_data" ELSE "post_data"

\* The places of the dump holding table t's chunks of the given kinds.
At(t, kinds) == {i \in DOMAIN dump : dump[i].table = t /\ dump[i].kind \in kinds}

AllKinds == {"log", "nl", "query_from", "row", "term", "setval"}

\* Weight and place of table t in what ordered_tables returned.
PosOf(t) == CHOOSE i \in DOMAIN discovered : discovered[i].table = t
WeightOf(t) == discovered[PosOf(t)].weight

\* C1: the stages are called in the order pre_data, data, post_data, each
\* at most once and each only after the one before it returned Ok; in the
\* dump every pre-data chunk precedes every chunk of the data stage, which
\* precedes every post-data chunk (no chunk is followed by a chunk of an
\* earlier stage).
C1_StagesInOrder ==
    /\ IsPrefix(attempts, Stages)
    /\ \A i \in 2..Len(attempts) : results[attempts[i - 1]] = "Ok"
    /\ \A i \in 1..(Len(dump) - 1) : StageRank(dump[i]) <= StageRank(dump[i + 1])

C1_Witness ==
    /\ pc = "done"
    /\ attempts = Stages
    /\ {StageRank(dump[i]) : i \in DOMAIN dump} = {1, 2, 3}
    /\ \E i \in DOMAIN dump : dump[i].kind = "row"

\* C2: a pg_dump call that ends with a non-zero status is the last thing
\* the run does: the process ends with a non-zero status, nothing of that
\* call's standard output is in the dump, and the stage that made the call is
\* the last one attempted.
C2_PgDumpFailureEndsRun ==
    \A i \in DOMAIN cmds :
        cmds[i].status = "nonzero" =>
            /\ i = Len(cmds)
            /\ pc \in {"exited", "failed"}
            /\ exit_status > 0
            /\ Last(attempts) = StageOfSection(cmds[i].section)
            /\ \A j \in DOMAIN dump :
                 ~(dump[j].kind = "pg_dump" /\ dump[j].text = cmds[i].section)

C2_Witness ==
    /\ pc = "exited"
    /\ exit_status = 1
    /\ Len(cmds) = 1
    /\ cmds[1].status = "nonzero"
    /\ attempts = <<"pre_data">>
    /\ dump = <<>>

\* C3: the for loop of data takes the tables in an order that never puts a
\* table before one of strictly greater weight and keeps tables of equal
\* weight in the order ordered_tables returned them; it takes no table
\* twice, and all of them when the stage succeeds.
C3_OrderMonotoneStable ==
    /\ \A i, j \in DOMAIN visited :
         i < j =>
            /\ visited[i] # visited[j]
            /\ WeightOf(visited[i]) >= WeightOf(visited[j])
            /\ WeightOf(visited[i]) = WeightOf(visited[j])
                  => PosOf(visited[i]) < PosOf(visited[j])
    /\ Range(visited) \subseteq {discovered[i].table : i \in DOMAIN discovered}
    /\ results["data"] = "Ok" => Len(visited) = Len(discovered)

C3_Witness ==
    /\ results["data"] = "Ok"
    /\ Len(visited) = 3
    /\ WeightOf(visited[1]) > WeightOf(visited[2])
    /\ WeightOf(visited[2]) = WeightOf(visited[3])
    /\ PosOf(visited[1]) = 2

\* Table t has chunks in the dump.
HasBlock(t) == \E i \in DOMAIN dump : dump[i].table = t

\* Every chunk of table a precedes every chunk of table b: behind a chunk
\* of b there is no chunk of a.
BlockBefore(a, b) ==
    \A j \in DOMAIN dump :
        dump[j].table = b => \A i \in j..Len(dump) : dump[i].table # a

\* C4 as stated: of two dumped tables of different weight, the one of
\* lower weight is dumped first.
C4_LowerWeightFirst ==
    \A a, b \in TableNames :
        (HasBlock(a) /\ HasBlock(b) /\ WeightOf(a) < WeightOf(b)) => BlockBefore(a, b)

\* C4 (amended): of two dumped tables of different weight, the one of
\* higher weight is dumped first: all its chunks precede all chunks of the
\* table of lower weight.
C4_HigherWeightFirst ==
    \A a, b \in TableNames :
        (HasBlock(a) /\ HasBlock(b) /\ WeightOf(a) > WeightOf(b)) => BlockBefore(a, b)

C4_Witness ==
    /\ Len(dumped) = 2
    /\ WeightOf(dumped[1]) > WeightOf(dumped[2])
    /\ PosOf(dumped[1]) = 2
    /\ At(dumped[1], {"row"}) # {}
    /\ At(dumped[2], {"row"}) # {}

\* The place of table t in the order the for loop took the tables.
VisitedPos(t) == CHOOSE i \in DOMAIN visited : visited[i] = t

\* C5: in the dump the chunks of one table form one block: once a chunk of
\* another table or a stage marker follows, no chunk of the table comes
\* again; a table has one start marker at most, and the blocks lie in the
\* order in which the for loop took the tables.
C5_NoInterleaving ==
    /\ \A i \in DOMAIN dump :
         (dump[i].table # "" /\ i < Len(dump) /\ dump[i + 1].table # dump[i].table)
            => \A k \in (i + 1)..Len(dump) : dump[k].table # dump[i].table
    /\ \A t \in TableNames : Cardinality(At(t, {"log"})) <= 1
    /\ \A i \in DOMAIN dump :
         (dump[i].table # "" /\ i < Len(dump) /\ dump[i + 1].table \notin {"", dump[i].table})
            => /\ dump[i].table \in Range(visited)
               /\ dump[i + 1].table \in Range(visited)
               /\ VisitedPos(dump[i].table) < VisitedPos(dump[i + 1].table)

C5_Witness ==
    /\ results["data"] = "Ok"
    /\ Len(dumped) = 2
    /\ \A t \in Range(dumped) : Cardinality(At(t, {"row"})) = 2
    /\ At("t1", {"setval"}) # {}

\* C6: the section of a table that dump_table dumped with success holds
\* exactly one terminator; the table's marker, preamble and rows, each with
\* its newline, lie before it and the table's setval statements behind it.
C6_OneTerminator ==
    \A t \in Range(dumped) :
        /\ Cardinality(At(t, {"term"})) = 1
        /\ At(t, {"query_from"}) # {}
        /\ LET p == CHOOSE i \in At(t, {"term"}) : TRUE
           IN /\ \A i \in At(t, {"log", "query_from", "row"}) : i < p
              /\ \A i \in At(t, {"setval"}) : i > p
              /\ p > 1 /\ dump[p - 1] = Newline(t)

C6_Witness ==
    /\ Len(dumped) = 2
    /\ At(dumped[1], {"row"}) = {}
    /\ {dump[i].text : i \in At(dumped[2], {"row"})} = {"transformed", "untransformed"}
    /\ At("t1", {"setval"}) # {}

\* The setval chunks of table t, in the order of the dump.
SetvalsOf(t) ==
    LET IsSetval(c) == c.table = t /\ c.kind = "setval"
    IN SelectSeq(dump, IsSetval)

\* C7: a table dumped with success has one setval statement per sequence,
\* in the order of table.sequences, each with the value a last-value query
\* for that sequence returned; that query was made after the table's
\* copy-out queries, when all the table's rows were in the dump.
C7_ResyncAfterRows ==
    \A t \in Range(dumped) :
        /\ Len(SetvalsOf(t)) = Len(sequences(t))
        /\ \A k \in DOMAIN SetvalsOf(t) :
             /\ SetvalsOf(t)[k].seq = sequences(t)[k]
             /\ \E q \in DOMAIN db_ops :
                  /\ db_ops[q].op = "query_one" /\ db_ops[q].ok
                  /\ db_ops[q].table = t /\ db_ops[q].seq = sequences(t)[k]
                  /\ db_ops[q].n = SetvalsOf(t)[k].n
                  /\ \A i \in At(t, {"row"}) : i < db_ops[q].at
                  /\ \A c \in DOMAIN db_ops :
                       (db_ops[c].op = "copy_out" /\ db_ops[c].table = t) => c < q

C7_Witness ==
    /\ "t3" \in Range(dumped)
    /\ Cardinality(At("t3", {"row"})) = 2
    /\ Len(SetvalsOf("t3")) = 2
    /\ SetvalsOf("t3")[1].n # SetvalsOf("t3")[2].n

\* What C8 says of a state after an error in the data stage.
C8_Failed ==
    results["data"] = "Err" =>
        /\ pc = "failed"
        /\ exit_status > 0
        /\ tr # "committed"
        /\ results["post_data"] = "none"
        /\ \A i \in DOMAIN dump : dump[i] # LogChunk("End dumping data", "")
        /\ \A q \in DOMAIN db_ops :
             ~db_ops[q].ok => (q = Len(db_ops) /\ db_ops[q].at = Len(dump))

\* What C8 says of a step after an error in the data stage.
C8_Stopped ==
    results["data"] = "Err" => UNCHANGED <<dump, visited, dumped, db_ops, tr>>

\* C8: once a read, a transformation, a query or a write of the data stage
\* has failed, the stage has returned the error: the run is over with an
\* error, the end marker is not in the dump, the transaction is not
\* committed, a failed request is the last request and nothing was written
\* after it, and from then on the dump, the tables taken and the requests
\* do not change.
C8_ErrorStopsData == [](C8_Failed) /\ [][C8_Stopped]_vars

C8_Witness ==
    /\ results["data"] = "Err"
    /\ pc = "failed"
    /\ tr = "rolled_back"
    /\ Len(dumped) = 1
    /\ Len(visited) = 2
    /\ Len(tables) = 2
    /\ At(visited[2], {"row"}) # {}
    /\ At(visited[2], {"term"}) = {}

\* Table t is turned down by the data filter.
Rejected(t) == ~filter_table(t, filter)

\* What C9 says of a state: a rejected table has left no trace.
C9_NoTrace ==
    \A t \in Range(visited) :
        Rejected(t) =>
            /\ At(t, AllKinds) = {}
            /\ \A q \in DOMAIN db_ops : db_ops[q].table # t
            /\ t \notin Range(dumped)

\* What C9 says of the step that takes a rejected table.
C9_SkipStep ==
    (pc = "loop" /\ ind <= Len(tables) /\ Rejected(tables[ind].table)) =>
        /\ pc' = "loop"
        /\ ind' = ind + 1
        /\ UNCHANGED <<dump, db_ops, results, ret, tr>>

\* C9: a table the data filter rejects gets no chunk in the dump and no
\* request on the connection, and the step that takes it fails nothing and
\* leaves the for loop at the next table.
C9_RejectedTableSkipped == [](C9_NoTrace) /\ [][C9_SkipStep]_vars

C9_Witness ==
    /\ results["data"] = "Ok"
    /\ Len(visited) = 3
    /\ Rejected(visited[1])
    /\ Rejected(visited[3])
    /\ dumped = <<visited[2]>>
    /\ At(visited[2], {"row"}) # {}

\* flag before each name of l: flag at the places 1, 3, ... and l's names,
\* in l's order, at the places 2, 4, ...
Pairs(flag, l) == [i \in 1..(2 * Len(l)) |-> IF i % 2 = 1 THEN flag ELSE l[i \div 2]]

\* C10: table_args returns the empty list without a filter or without a
\* schema list, -t before each name of an Only list and -T before each name
\* of an Except list, in the list's order; the result has two entries per
\* name and one and the same flag at every other place.
C10_TableArgs ==
    pc = "returned" =>
        /\ (~filter.some \/ filter.schema.kind = "None") => table_args_ret = <<>>
        /\ (filter.some /\ filter.schema.kind = "Only")
              => table_args_ret = Pairs("-t", filter.schema.tables)
        /\ (filter.some /\ filter.schema.kind = "Except")
              => table_args_ret = Pairs("-T", filter.schema.tables)
        /\ Len(table_args_ret) = 2 * Len(filter.schema.tables)
        /\ \A i, j \in DOMAIN table_args_ret :
             (i % 2 = 1 /\ j % 2 = 1) => table_args_ret[i] = table_args_ret[j]

C10_Witness ==
    /\ pc = "returned"
    /\ filter.some
    /\ filter.schema = [kind |-> "Only", tables |-> <<"t1", "t2">>]
    /\ table_args_ret = <<"-t", "t1", "-t", "t2">>

\* The schema list of a filter; a missing filter has none.
SchemaOf(f) == IF f.some THEN f.schema ELSE NoList

\* The filters that have the schema list of f, with every data list.
SameSchema(f) ==
    {[some |-> TRUE, schema |-> SchemaOf(f), data |-> d] :
        d \in TableListsOver(TableNames, MaxListLen)}
    \cup (IF SchemaOf(f) = NoList THEN {NoFilter} ELSE {})

\* C11: the result of table_args depends on the schema list only: every
\* filter with the same schema list, whatever its data list, is given the
\* same argument list, and a filter with a data list and no schema list is
\* given the empty list.
C11_SchemaOnly ==
    pc = "returned" =>
        /\ \A g \in SameSchema(filter) : table_args(g) = table_args_ret
        /\ (filter.some /\ filter.schema.kind = "None" /\ filter.data.kind # "None")
              => table_args_ret = <<>>

C11_Witness ==
    /\ pc = "returned"
    /\ filter.some
    /\ filter.schema = NoList
    /\ filter.data = [kind |-> "Except", tables |-> <<"t1">>]
    /\ table_args_ret = <<>>

\* C12: when the dump goes to standard output, debug has printed nothing
\* and the progress bar is hidden: nothing but the dump writer's bytes
\* reaches standard output.
C12_QuietOnStdout ==
    target = "stdout" =>
        /\ ~can_log_to_stdout
        /\ stdout = <<>>
        /\ progress_bar.hidden

C12_Witness ==
    /\ target = "stdout"
    /\ pc = "done"
    /\ Len(visited) = 2
    /\ Len(dumped) = 1
    /\ Rejected(visited[2])
    /\ progress_bar.incs > 0
    /\ stdout = <<>>

\* The database name the command line gives: the positional name, or the
\* dbname option when the positional name is empty.
DbNameOf(o) == IF o.database # <<>> THEN o.database ELSE o.db_name

\* A string that is one word, without a character that delimits URL parts.
IsWord(s) == Len(s) = 1 /\ s[1] \notin Delims

\* Connection inputs whose parts are plain words.
ValidParts(o) ==
    /\ IsWord(o.host)
    /\ IsWord(DbNameOf(o))
    /\ o.username = None \/ IsWord(o.username[1])
    /\ o.password = None \/ IsWord(o.password[1])

SameDatabase(o) == {other \in OptionsSet : other.database = o.database}

\* C14: when the positional name parses as a URL of scheme postgres,
\* database_url returns that URL, and returns it whatever the host, port,
\* user name, password and dbname options are; when it parses as a URL of
\* another scheme, database_url returns an error and no URL, whatever the
\* options are.
C14_UrlAsGiven ==
    (pc = "returned" /\ Url_parse(options.database).ok) =>
        IF Url_parse(options.database).url.scheme = "postgres"
        THEN /\ database_url_ret = Ok(Url_parse(options.database).url)
             /\ \A other \in SameDatabase(options) : database_url(other) = database_url_ret
        ELSE /\ ~database_url_ret.ok
             /\ database_url_ret.url = NoUrl
             /\ \A other \in SameDatabase(options) : ~database_url(other).ok

C14_Witness ==
    /\ pc = "returned"
    /\ options = [database |-> <<"postgres", ":", "/", "/", "test_user", "@", "hostname",
                                 "/", "test">>,
                  db_name |-> <<"postgres">>, host |-> <<"localhost">>,
                  port |-> Some(5433), username |-> None, password |-> Some(<<"pass">>)]
    /\ database_url_ret.ok
    /\ to_string(database_url_ret.url) = options.database

\* The command line names no database.
NoDatabase(o) == o.database = <<>> /\ o.db_name = <<>>

\* C15 as stated: database_url returns an error exactly when the positional
\* name and the dbname option are both empty.
C15_ErrorOnlyWithoutName ==
    pc = "returned" => (~database_url_ret.ok <=> NoDatabase(options))

\* C15 (amended): database_url returns the error "No one database passed",
\* and no URL, exactly when the positional name and the dbname option are
\* both empty; a URL built from the options has as its path the positional
\* name when that is not empty, whatever the dbname option is, and the
\* dbname option otherwise.
C15_MissingName ==
    pc = "returned" =>
        /\ database_url_ret.err = "No one database passed" <=> NoDatabase(options)
        /\ NoDatabase(options) => (~database_url_ret.ok /\ database_url_ret.url = NoUrl)
        /\ (database_url_ret.ok /\ ~Url_parse(options.database).ok)
              => database_url_ret.url.path = <<"/">> \o DbNameOf(options)

C15_Witness ==
    /\ pc = "returned"
    /\ NoDatabase(options)
    /\ options.host = <<"hostname">>
    /\ options.username = Some(<<"test_user">>)
    /\ database_url_ret = Err("No one database passed")

\* The locale type bound to each locale.
BoundTo(l) ==
    CASE l = Some("RU") -> "locale::RU"
      [] l = Some("ZH_TW") -> "fake::locales::ZH_TW"
      [] OTHER -> "fake::locales::EN"

\* What C16 says of a state: one call of fake per call of localized_fake,
\* on the same rule and with the locale type of the rule's locale (EN
\* without one); the value is what fake returned, and rules that are equal,
\* locale included, were given equal values.
C16_Calls ==
    /\ Len(fake_calls) = Len(fake_rets)
    /\ \A i \in DOMAIN fake_rets :
         /\ fake_calls[i].rule = fake_rets[i].rule
         /\ fake_calls[i].L = BoundTo(fake_rets[i].rule.locale)
         /\ fake_rets[i].value = fake(fake_rets[i].rule, fake_calls[i].L)
    /\ \A i, j \in DOMAIN fake_rets :
         fake_rets[i].rule = fake_rets[j].rule => fake_rets[i].value = fake_rets[j].value

\* What C16 says of a call of localized_fake: it makes one call of fake and
\* changes nothing of the rule.
C16_CallStep ==
    fake_rets' # fake_rets =>
        /\ Len(fake_rets') = Len(fake_rets) + 1
        /\ Len(fake_calls') = Len(fake_calls) + 1
        /\ rule' = rule

\* C16: localized_fake calls the rule's fake once, with the locale type of
\* the rule's own locale or of EN when the rule has none, and returns its
\* value; the value depends on the rule and its locale only, and the call
\* changes no state.
C16_LocaleDispatch == [](C16_Calls) /\ [][C16_CallStep]_vars

C16_Witness ==
    /\ Len(fake_rets) = 2
    /\ fake_rets[1].rule.locale = None
    /\ fake_calls[1].L = "fake::locales::EN"
    /\ fake_rets[2].rule.locale = Some("ZH_TW")
    /\ fake_calls[2].L = "fake::locales::ZH_TW"
    /\ fake_rets[1].value # fake_rets[2].value

\* The section a structural stage asks pg_dump for.
SectionOf(stage) == IF stage = "pre_data" THEN "pre-data" ELSE "post-data"

\* The pg_dump calls made for a section.
CmdsFor(section) == {i \in DOMAIN cmds : cmds[i].section = section}

\* The table arguments that go with the schema list of filter f.
SchemaArgs(f) ==
    CASE SchemaOf(f).kind = "Only" -> Pairs("-t", SchemaOf(f).tables)
      [] SchemaOf(f).kind = "Except" -> Pairs("-T", SchemaOf(f).tables)
      [] OTHER -> <<>>

\* C17: a structural stage that was entered has made exactly one pg_dump
\* call, a stage not entered none, and the data stage never makes one; the
\* arguments of a call are the passthrough arguments, --section with the
\* stage's section, the table arguments of the schema list and, as the last
\* argument, the connection URL.
C17_OnePgDumpPerStage ==
    /\ \A stage \in {"pre_data", "post_data"} :
         Cardinality(CmdsFor(SectionOf(stage))) = IF stage \in Range(attempts) THEN 1 ELSE 0
    /\ \A i \in DOMAIN cmds :
         /\ cmds[i].section \in {"pre-data", "post-data"}
         /\ cmds[i].program = pg_dump_location
         /\ cmds[i].args = pg_dump_args \o <<"--section", cmds[i].section>>
                              \o SchemaArgs(filter) \o <<db_url>>
         /\ Last(cmds[i].args) = db_url
         /\ \A k \in 1..(Len(cmds[i].args) - 1) : cmds[i].args[k] # db_url

C17_Witness ==
    /\ pc = "done"
    /\ Len(cmds) = 2
    /\ cmds[1].args = <<"--no-owner", "--section", "pre-data", "-t", "t1", "-t", "t2",
                        "postgres://localhost/postgres">>
    /\ cmds[2].args = <<"--no-owner", "--section", "post-data", "-t", "t1", "-t", "t2",
                        "postgres://localhost/postgres">>
    /\ Len(dumped) = 1

\* C18 as stated: the transaction is opened before the tables are obtained,
\* so every other request of the data stage on the connection (the table
\* discovery, the copy-out queries, the last-value queries) is made after a
\* request that opened the transaction.
C18_DiscoveryInTransaction ==
    \A q \in DOMAIN db_ops :
        db_ops[q].op # "transaction" =>
            \E p \in 1..(q - 1) : db_ops[p].op = "transaction" /\ db_ops[p].ok

\* The row chunks of table t, in the order of the dump.
RowsOf(t) ==
    LET IsRow(c) == c.table = t /\ c.kind = "row"
    IN SelectSeq(dump, IsRow)

\* The rows of table t that the transformed pass wrote.
TransformedRows(t) == {i \in At(t, {"row"}) : dump[i].text = "transformed"}

\* Where dump_table is between its preamble and its return.
InPasses ==
    pc \in {"transformed_query", "transformed_lines", "untransformed_query",
            "untransformed_lines", "terminator", "sequences"}

\* dump_table has just returned Ok for the last table taken.
JustDumped == pc = "loop" /\ dumped # <<>> /\ Last(visited) = Last(dumped)

\* C19: both passes count in one counter: while dump_table runs and when it
\* has returned Ok, count is the number of the table's rows in the dump, of
\* both passes together, and the number of ticks of the progress bar; the
\* rows carry the counter's values 1, 2, ... across the passes; the
\* untransformed query is made with the number of rows the transformed pass
\* wrote, after that pass's query and after all its rows, and the
\* transformed query with 0.
C19_SharedCounter ==
    /\ InPasses =>
          (count = Len(RowsOf(Cur)) /\ progress_bar.incs = count)
    /\ JustDumped =>
          (count = Len(RowsOf(Last(dumped))) /\ progress_bar.incs = count)
    /\ \A t \in Range(visited) :
         LET rows == RowsOf(t)
         IN \A k \in DOMAIN rows :
               /\ rows[k].n = k
               /\ (k > 1 /\ rows[k].text = "transformed")
                     => rows[k - 1].text = "transformed"
    /\ \A q \in DOMAIN db_ops :
         db_ops[q].op = "copy_out" =>
            IF db_ops[q].seq = "transformed"
            THEN db_ops[q].n = 0
            ELSE /\ db_ops[q].n = Cardinality(TransformedRows(db_ops[q].table))
                 /\ \A i \in TransformedRows(db_ops[q].table) : i <= db_ops[q].at
                 /\ \A c \in DOMAIN db_ops :
                      (db_ops[c].op = "copy_out" /\ db_ops[c].table = db_ops[q].table
                         /\ db_ops[c].seq = "transformed") => c < q

C19_Witness ==
    /\ JustDumped
    /\ count = 2
    /\ progress_bar.incs = 2
    /\ Len(RowsOf(Last(dumped))) = 2
    /\ RowsOf(Last(dumped))[1].text = "transformed"
    /\ RowsOf(Last(dumped))[2].text = "untransformed"
    /\ \E q \in DOMAIN db_ops :
         /\ db_ops[q].op = "copy_out" /\ db_ops[q].seq = "untransformed"
         /\ db_ops[q].table = Last(dumped) /\ db_ops[q].n = 1

\* The places of the data stage's start and end markers in the dump.
StartMarks == {i \in DOMAIN dump : dump[i] = LogChunk("Start dumping data", "")}
EndMarks == {i \in DOMAIN dump : dump[i] = LogChunk("End dumping data", "")}

\* The tables of the list that the data filter accepts.
Accepted == {discovered[i].table : i \in {j \in DOMAIN discovered :
                                            filter_table(discovered[j].table, filter)}}

\* The data stage is over and dump_table has returned Ok for every
\* accepted table.
AllAcceptedDumped == results["data"] # "none" /\ Accepted \subseteq Range(dumped)

\* C20 as stated, its part on the end marker: once a data stage that
\* obtained the tables and opened the transaction is over, the end marker
\* is in the dump if and only if every accepted table was dumped without
\* error.
C20_EndIffAllDumped ==
    (results["data"] # "none" /\ tr # "none") => (EndMarks # {} <=> AllAcceptedDumped)

\* C20 (amended): the start marker is in the dump once at most, is there
\* when a chunk of a table is, and has no chunk of a table before it; the
\* end marker is in the dump exactly when the data stage has returned Ok,
\* then once, with no chunk of a table behind it, and only with every
\* accepted table dumped; a dumped table has exactly one "Dump table"
\* marker, which is the first chunk of its section and has the copy
\* preamble right behind it.
C20_Markers ==
    LET starts == StartMarks
        ends == EndMarks
    IN  /\ Cardinality(starts) <= 1
        /\ (\E i \in DOMAIN dump : dump[i].table # "") => starts # {}
        /\ \A s \in starts : \A i \in 1..(s - 1) : dump[i].table = ""
        /\ ends # {} <=> results["data"] = "Ok"
        /\ ends # {} =>
              /\ Cardinality(ends) = 1
              /\ AllAcceptedDumped
              /\ \A e \in ends :
                   /\ \A s \in starts : s < e
                   /\ \A i \in e..Len(dump) : dump[i].table = ""
        /\ \A t \in Range(dumped) :
             LET marks == At(t, {"log"})
             IN /\ Cardinality(marks) = 1
                /\ \A m \in marks :
                     /\ dump[m] = LogChunk("Dump table", t)
                     /\ \A i \in 1..(m - 1) : dump[i].table # t
                     /\ m + 3 <= Len(dump)
                     /\ dump[m + 1] = Newline(t)
                     /\ dump[m + 2] = QueryFrom(t)
                     /\ dump[m + 3] = Newline(t)

C20_Witness ==
    /\ pc = "post_data"
    /\ results["data"] = "Ok"
    /\ Len(dumped) = 2
    /\ Len(visited) = 2
    /\ Last(dump) = LogChunk("End dumping data", "")
    /\ dump[Len(dump) - 1].table = dumped[2]
    /\ RowsOf(dumped[1]) # <<>>

====
